---- MODULE Spec2Model ----
(***************************************************************************)
(* A model of phayes/hookserve: the webhook handler Server.ServeHTTP, the  *)
(* Event text codec (Event.String / NewEvent) and the buffered channel     *)
(* Server.Events that hands Events from request handlers to a consumer.    *)
(*                                                                         *)
(* Go strings that the code slices, concatenates or splits are sequences   *)
(* of one-character strings; strings that are only compared (method, path, *)
(* secret) are TLA+ strings.                                               *)
(***************************************************************************)
EXTENDS Naturals, Integers, Sequences, FiniteSets, Bags, TLC

VARIABLES
    server,     \* the Server's configuration fields: Port, Path, Secret, IgnoreTags
    Events,     \* Server.Events: the buffered channel's content, oldest first
    handlers,   \* bag of ServeHTTP calls in flight: [req, pc, event]
    pending,    \* bag of detached goroutines that have not yet sent: [ev, src]
    started,    \* history: bag of every detached enqueue ever started
    received,   \* history: what the consumer has read from Server.Events, in order
    resp,       \* the response of the ServeHTTP call that returned last
    inputs,     \* the requests the clients of this run send
    limit,      \* how many requests the clients of this run send at most
    nreq,       \* how many requests have arrived
    cEvent,     \* codec: the Event last passed to Event.String
    cText,      \* codec: the text last produced, or supplied, for NewEvent
    cOut        \* codec: what NewEvent returned for cText

srvVars == <<server, Events, handlers, pending, started, received, resp, inputs, limit, nreq>>
codecVars == <<cEvent, cText, cOut>>
vars == <<server, Events, handlers, pending, started, received, resp, inputs, limit, nreq,
          cEvent, cText, cOut>>

----------------------------------------------------------------------------
(* Bounds of the model.                                                    *)

\* requests per run when the run's single request is drawn from all of Requests
MaxReq == 2
\* requests per run of concurrently handled accepted deliveries
MaxConc == 3
\* requests per run of the burst that fills Server.Events and goes one past it
MaxBurst == 11

\* requests per run of a client that sends one request after the other
MaxSerial == 3

\* make(chan Event, 10)
Cap == 10

----------------------------------------------------------------------------
(* Go string operations.                                                   *)

\* s[lo:hi] is a run-time panic unless 0 <= lo <= hi <= len(s)
SliceOK(s, lo, hi) == lo <= hi /\ hi <= Len(s)

\* s[lo:hi], zero-based and half-open as in Go
Slice(s, lo, hi) == SubSeq(s, lo + 1, hi)

\* the cutset of strings.Trim(e, "\n\t ")
CutSet == {"\n", "\t", " "}

RECURSIVE TrimLeft(_)
TrimLeft(s) == IF s # <<>> /\ Head(s) \in CutSet THEN TrimLeft(Tail(s)) ELSE s

RECURSIVE TrimRight(_)
TrimRight(s) ==
    IF s # <<>> /\ s[Len(s)] \in CutSet THEN TrimRight(SubSeq(s, 1, Len(s) - 1)) ELSE s

\* strings.Trim(e, "\n\t ")
Trim(s) == TrimRight(TrimLeft(s))

\* strings.Split(e, "\n"): one more part than there are separators
RECURSIVE Split(_)
Split(s) ==
    IF \E i \in 1..Len(s) : s[i] = "\n"
    THEN LET i == CHOOSE k \in 1..Len(s) : s[k] = "\n" /\ \A j \in 1..(k - 1) : s[j] # "\n"
         IN  <<SubSeq(s, 1, i - 1)>> \o Split(SubSeq(s, i + 1, Len(s)))
    ELSE <<s>>

----------------------------------------------------------------------------
(* Event and its text codec.                                               *)

Push == <<"p", "u", "s", "h">>
PullRequest == <<"p", "u", "l", "l", "_", "r", "e", "q", "u", "e", "s", "t">>

\* Event{}: every field the empty string
EmptyEvent ==
    [Owner |-> <<>>, Repo |-> <<>>, Branch |-> <<>>, Commit |-> <<>>, Type |-> <<>>,
     Action |-> <<>>, BaseOwner |-> <<>>, BaseRepo |-> <<>>, BaseBranch |-> <<>>]

LabelType    == <<"t", "y", "p", "e", ":", " ", " ", " ">>
LabelOwner   == <<"o", "w", "n", "e", "r", ":", " ", " ">>
LabelRepo    == <<"r", "e", "p", "o", ":", " ", " ", " ">>
LabelBranch  == <<"b", "r", "a", "n", "c", "h", ":", " ">>
LabelCommit  == <<"c", "o", "m", "m", "i", "t", ":", " ">>
LabelAction  == <<"a", "c", "t", "i", "o", "n", ":", " ">>
LabelBOwner  == <<"b", "o", "w", "n", "e", "r", ":", " ">>
LabelBRepo   == <<"b", "r", "e", "p", "o", ":", " ", " ">>
LabelBBranch == <<"b", "b", "r", "a", "n", "c", "h", ":">>

NL == <<"\n">>

\* func (e *Event) String()
String(e) ==
    LabelType \o e.Type \o NL
    \o LabelOwner \o e.Owner \o NL
    \o LabelRepo \o e.Repo \o NL
    \o LabelBranch \o e.Branch \o NL
    \o LabelCommit \o e.Commit \o NL
    \o (IF e.Type = PullRequest
        THEN LabelAction \o e.Action \o NL
             \o LabelBOwner \o e.BaseOwner \o NL
             \o LabelBRepo \o e.BaseRepo \o NL
             \o LabelBBranch \o e.BaseBranch \o NL
        ELSE <<>>)

\* the sanity check on the number of lines: len(parts) != 5 || len(parts) != 8
BadLineCount(parts) == Len(parts) # 5 \/ Len(parts) # 8

\* item[8:] of a part already known to hold 8 characters
Value(item) == Slice(item, 8, Len(item))

\* func NewEvent(e string) (*Event, error); err is ErrInvalidEventFormat
NewEvent(e) ==
    LET parts == Split(Trim(e))
        base  == [EmptyEvent EXCEPT !.Type = Value(parts[1]),
                                    !.Owner = Value(parts[2]),
                                    !.Repo = Value(parts[3]),
                                    !.Branch = Value(parts[4]),
                                    !.Commit = Value(parts[5])]
    IN  IF BadLineCount(parts)
        THEN [err |-> TRUE, event |-> EmptyEvent]
        ELSE IF \E i \in 1..Len(parts) : Len(parts[i]) < 8
        THEN [err |-> TRUE, event |-> EmptyEvent]
        ELSE IF base.Type # PullRequest
        THEN [err |-> FALSE, event |-> base]
        ELSE IF Len(parts) = 9
        THEN [err |-> FALSE,
              event |-> [base EXCEPT !.Action = Value(parts[6]),
                                     !.BaseOwner = Value(parts[7]),
                                     !.BaseRepo = Value(parts[8]),
                                     !.BaseBranch = Value(parts[9])]]
        ELSE IF Len(parts) = 8
        THEN [err |-> FALSE,
              event |-> [base EXCEPT !.BaseOwner = Value(parts[6]),
                                     !.BaseRepo = Value(parts[7]),
                                     !.BaseBranch = Value(parts[8])]]
        ELSE [err |-> TRUE, event |-> EmptyEvent]

----------------------------------------------------------------------------
(* The request body and its JSON tree (go-jsontree).                       *)
(*                                                                         *)
(* A JSON document is the set of its leaves <<path, kind, value>>: kind is *)
(* "string" or "null", and every proper prefix of a leaf's path is an      *)
(* object.  A body is the document its bytes decode to (valid = FALSE when *)
(* they are not JSON) and pad, which tells apart byte sequences that       *)
(* decode to the same document.                                            *)

\* request.UnmarshalJSON(body) returns an error
UnmarshalFails(body) == ~body.valid

\* request.Get(p[1]).Get(p[2])...String() returns an error
StringFails(doc, p) == ~\E l \in doc : l[1] = p /\ l[2] = "string"

\* the value of request.Get(p[1]).Get(p[2])...String()
StringAt(doc, p) == (CHOOSE l \in doc : l[1] = p /\ l[2] = "string")[3]

\* request.Get(p[1])...IsNull(), for a key the payload has; every push payload
\* sent here has head_commit, as null or as an object
IsNull(doc, p) == \E l \in doc : l[1] = p /\ l[2] = "null"

----------------------------------------------------------------------------
(* crypto/hmac, crypto/sha1, encoding/hex: an ideal MAC.  Two digests are  *)
(* equal exactly when key and message are.                                 *)

HmacSha1(key, body) == <<key, body>>

HexEncode(mac) == <<"hex", mac>>

\* "sha1=" + hex.EncodeToString(expectedMAC); a header value is the empty
\* sequence (no header, or an empty one) or <<scheme, digest>>
ExpectedSig(secret, body) == <<"sha1=", HexEncode(HmacSha1(secret, body))>>

----------------------------------------------------------------------------
(* Responses.                                                              *)

\* what one ServeHTTP call does: the status and body it writes (errText is
\* the body http.Error writes, text the body w.Write writes; status 0 is a
\* run-time panic: net/http closes the connection and no response is sent),
\* and whether it starts the detached enqueue of event
Reply(status, errText) ==
    [status |-> status, errText |-> errText, text |-> <<>>, spawn |-> FALSE,
     event |-> EmptyEvent]

\* the handler returns without writing: net/http sends 200 and no body
Ignored == Reply(200, "")

\* a slice expression out of range
Panic == Reply(0, "panic: slice bounds out of range")

\* err.Error() of a go-jsontree error
JsonError == Reply(500, "jsontree error")

\* lines 271-276: the detached enqueue is started and event.String() written
Accepted(event) ==
    [status |-> 200, errText |-> "", text |-> String(event), spawn |-> TRUE,
     event |-> event]

\* a check that lets the request through
Pass == [done |-> FALSE, out |-> Ignored]

Stop(out) == [done |-> TRUE, out |-> out]

----------------------------------------------------------------------------
(* Server.ServeHTTP.                                                       *)

RefsTags  == <<"r", "e", "f", "s", "/", "t", "a", "g", "s", "/">>
RefsHeads == <<"r", "e", "f", "s", "/", "h", "e", "a", "d", "s", "/">>

\* func (s *Server) ignoreRef(rawRef string) bool; fault = the call panics
ignoreRef(s, rawRef) ==
    IF ~SliceOK(rawRef, 0, 10)
    THEN [fault |-> TRUE, val |-> FALSE]
    ELSE IF Slice(rawRef, 0, 10) = RefsTags /\ ~s.IgnoreTags
    THEN [fault |-> FALSE, val |-> FALSE]
    ELSE IF ~SliceOK(rawRef, 0, 11)
    THEN [fault |-> TRUE, val |-> FALSE]
    ELSE [fault |-> FALSE, val |-> Slice(rawRef, 0, 11) # RefsHeads]

\* Route with the path checked before the method
RoutePathFirst(s, req) ==
    IF req.path # s.Path
    THEN Stop(Reply(404, "404 Not found"))
    ELSE IF req.method # "POST"
    THEN Stop(Reply(405, "405 Method not allowed"))
    ELSE IF req.eventType = <<>>
    THEN Stop(Reply(400, "400 Bad Request - Missing X-GitHub-Event Header"))
    ELSE IF req.eventType # Push /\ req.eventType # PullRequest
    THEN Stop(Reply(400, "400 Bad Request - Unknown Event Type"))
    ELSE Pass

\* lines 139-156: method, path and X-GitHub-Event
Route(s, req) ==
    IF req.method # "POST"
    THEN Stop(Reply(405, "405 Method not allowed"))
    ELSE IF req.path # s.Path
    THEN Stop(Reply(404, "404 Not found"))
    ELSE IF req.eventType = <<>>
    THEN Stop(Reply(400, "400 Bad Request - Missing X-GitHub-Event Header"))
    ELSE IF req.eventType # Push /\ req.eventType # PullRequest
    THEN Stop(Reply(400, "400 Bad Request - Unknown Event Type"))
    ELSE Pass

\* Authenticate that only asks for the header to be there
AuthenticateAnySig(s, req) ==
    IF s.Secret # "" /\ req.sig = <<>>
    THEN Stop(Reply(403, "403 Forbidden - Missing X-Hub-Signature required for HMAC verification"))
    ELSE Pass

\* Authenticate that checks the MAC only of a request that sends one
AuthenticateIfSigned(s, req) ==
    IF s.Secret # "" /\ req.sig # <<>> /\ ExpectedSig(s.Secret, req.body) # req.sig
    THEN Stop(Reply(403, "403 Forbidden - HMAC verification failed"))
    ELSE Pass

\* lines 164-181: the MAC check
Authenticate(s, req) ==
    IF s.Secret # ""
    THEN IF req.sig = <<>>
         THEN Stop(Reply(403, "403 Forbidden - Missing X-Hub-Signature required for HMAC verification"))
         ELSE IF ExpectedSig(s.Secret, req.body) # req.sig
         THEN Stop(Reply(403, "403 Forbidden - HMAC verification failed"))
         ELSE Pass
    ELSE Pass

\* line 206: event.Branch = rawRef[11:]
BranchOf(rawRef) == Slice(rawRef, 11, Len(rawRef))

\* lines 193-221: the push branch
PushEvent(s, eventType, doc) ==
    IF StringFails(doc, <<"ref">>) THEN Stop(JsonError)
    ELSE LET rawRef == StringAt(doc, <<"ref">>)
             ign    == ignoreRef(s, rawRef)
         IN  IF ign.fault THEN Stop(Panic)
             ELSE IF ign.val \/ IsNull(doc, <<"head_commit">>) THEN Stop(Ignored)
             ELSE IF ~SliceOK(rawRef, 11, Len(rawRef)) THEN Stop(Panic)
             ELSE IF StringFails(doc, <<"repository", "name">>) THEN Stop(JsonError)
             ELSE IF StringFails(doc, <<"head_commit", "id">>) THEN Stop(JsonError)
             ELSE IF StringFails(doc, <<"repository", "owner", "name">>) THEN Stop(JsonError)
             ELSE Stop(Accepted(
                    [EmptyEvent EXCEPT
                        !.Type = eventType,
                        !.Branch = BranchOf(rawRef),
                        !.Repo = StringAt(doc, <<"repository", "name">>),
                        !.Commit = StringAt(doc, <<"head_commit", "id">>),
                        !.Owner = StringAt(doc, <<"repository", "owner", "name">>)]))

PrHead == <<"pull_request", "head">>
PrBase == <<"pull_request", "base">>

\* the paths the pull_request branch reads, in the order it reads them
PrPaths ==
    << <<"action">>,
       PrHead \o <<"repo", "owner", "login">>, PrHead \o <<"repo", "name">>,
       PrHead \o <<"ref">>, PrHead \o <<"sha">>,
       PrBase \o <<"repo", "owner", "login">>, PrBase \o <<"repo", "name">>,
       PrBase \o <<"ref">> >>

\* the pull_request branch with a filter on the action: anything but opened
\* and synchronize is ignored
PullRequestEventFiltered(eventType, doc) ==
    IF StringFails(doc, PrPaths[1]) THEN Stop(JsonError)
    ELSE IF StringAt(doc, PrPaths[1]) \notin
                {<<"o", "p", "e", "n", "e", "d">>,
                 <<"s", "y", "n", "c", "h", "r", "o", "n", "i", "z", "e">>}
    THEN Stop(Ignored)
    ELSE IF \E i \in 1..Len(PrPaths) : StringFails(doc, PrPaths[i])
    THEN Stop(JsonError)
    ELSE Stop(Accepted(
           [EmptyEvent EXCEPT
               !.Action = StringAt(doc, PrPaths[1]),
               !.Type = eventType,
               !.Owner = StringAt(doc, PrPaths[2]),
               !.Repo = StringAt(doc, PrPaths[3]),
               !.Branch = StringAt(doc, PrPaths[4]),
               !.Commit = StringAt(doc, PrPaths[5]),
               !.BaseOwner = StringAt(doc, PrPaths[6]),
               !.BaseRepo = StringAt(doc, PrPaths[7]),
               !.BaseBranch = StringAt(doc, PrPaths[8])]))

\* the pull_request branch reading the base where the head is meant, and the
\* head where the base is meant
PullRequestEventSwapped(eventType, doc) ==
    IF \E i \in 1..Len(PrPaths) : StringFails(doc, PrPaths[i])
    THEN Stop(JsonError)
    ELSE Stop(Accepted(
           [EmptyEvent EXCEPT
               !.Action = StringAt(doc, PrPaths[1]),
               !.Type = eventType,
               !.Owner = StringAt(doc, PrPaths[6]),
               !.Repo = StringAt(doc, PrPaths[7]),
               !.Branch = StringAt(doc, PrPaths[8]),
               !.Commit = StringAt(doc, PrPaths[5]),
               !.BaseOwner = StringAt(doc, PrPaths[2]),
               !.BaseRepo = StringAt(doc, PrPaths[3]),
               !.BaseBranch = StringAt(doc, PrPaths[4])]))

\* lines 222-265: the pull_request branch
PullRequestEvent(eventType, doc) ==
    IF \E i \in 1..Len(PrPaths) : StringFails(doc, PrPaths[i])
    THEN Stop(JsonError)
    ELSE Stop(Accepted(
           [EmptyEvent EXCEPT
               !.Action = StringAt(doc, PrPaths[1]),
               !.Type = eventType,
               !.Owner = StringAt(doc, PrPaths[2]),
               !.Repo = StringAt(doc, PrPaths[3]),
               !.Branch = StringAt(doc, PrPaths[4]),
               !.Commit = StringAt(doc, PrPaths[5]),
               !.BaseOwner = StringAt(doc, PrPaths[6]),
               !.BaseRepo = StringAt(doc, PrPaths[7]),
               !.BaseBranch = StringAt(doc, PrPaths[8])]))

\* lines 183-269: decode the body and build the Event
Extract(s, req) ==
    IF UnmarshalFails(req.body) THEN Stop(JsonError)
    ELSE IF req.eventType = Push THEN PushEvent(s, req.eventType, req.body.doc)
    ELSE IF req.eventType = PullRequest THEN PullRequestEvent(req.eventType, req.body.doc)
    ELSE Stop(Reply(500, "Unknown Event Type"))

\* ServeHTTP with the body decoded before the signature is checked
ServeHTTPDecodeFirst(s, req) ==
    LET r == Route(s, req)
        a == Authenticate(s, req)
    IN  IF r.done THEN r.out
        ELSE IF UnmarshalFails(req.body) THEN JsonError
        ELSE IF a.done THEN a.out
        ELSE Extract(s, req).out

\* func (s *Server) ServeHTTP: the first check that stops the request
\* decides the outcome (ioutil.ReadAll of the body is taken to succeed)
ServeHTTP(s, req) ==
    LET r == Route(s, req)
        a == Authenticate(s, req)
    IN  IF r.done THEN r.out
        ELSE IF a.done THEN a.out
        ELSE Extract(s, req).out

----------------------------------------------------------------------------
(* The requests the clients send.                                          *)

RefBranch      == RefsHeads \o <<"m", "a", "i", "n">>
RefBranchOnly  == RefsHeads
RefTag         == RefsTags \o <<"v", "1">>
RefTagOnly     == RefsTags
RefPull        == <<"r", "e", "f", "s", "/", "p", "u", "l", "l", "/", "3", "/", "m", "e", "r", "g", "e">>
RefShort       == <<"m", "a", "s", "t", "e", "r">>
RefEmpty       == <<>>

Refs == {RefBranch, RefBranchOnly, RefTag, RefTagOnly, RefPull, RefShort, RefEmpty}

\* head_commit: null, or an object with the ids given (none: an object without id)
HeadNull == [null |-> TRUE, ids |-> {}]
HeadWith(ids) == [null |-> FALSE, ids |-> ids]

\* a push payload; ref, repo and owner are sets of at most one value, the
\* empty set for a field the payload does not have
PushDoc(ref, head, repo, owner) ==
    {<<<<"ref">>, "string", v>> : v \in ref}
    \cup (IF head.null
          THEN {<<<<"head_commit">>, "null", <<>>>>}
          ELSE {<<<<"head_commit", "id">>, "string", v>> : v \in head.ids}
               \cup {<<<<"head_commit", "message">>, "string", <<"m">>>>})
    \cup {<<<<"repository", "name">>, "string", v>> : v \in repo}
    \cup {<<<<"repository", "owner", "name">>, "string", v>> : v \in owner}

\* the values of a pull_request payload, in the order of PrPaths
PrValues(action) ==
    <<action, <<"h", "o">>, <<"h", "r">>, <<"h", "b">>, <<"h", "s">>,
      <<"b", "o">>, <<"b", "r">>, <<"b", "b">>>>

\* a pull_request payload without the path PrPaths[missing] (0: complete)
PrDoc(action, missing) ==
    {<<PrPaths[i], "string", PrValues(action)[i]>> : i \in (1..Len(PrPaths)) \ {missing}}

Opened == <<"o", "p", "e", "n", "e", "d">>
Closed == <<"c", "l", "o", "s", "e", "d">>

Body(doc) == [valid |-> TRUE, doc |-> doc, pad |-> 0]

\* bytes that are not JSON
Garbage == [valid |-> FALSE, doc |-> {}, pad |-> 0]

PushBodies ==
    {Body(PushDoc(ref, head, repo, owner)) :
        ref \in {{r} : r \in Refs} \cup {{}},
        head \in {HeadNull, HeadWith({}), HeadWith({<<"c", "1">>})},
        repo \in {{<<"r", "1">>}},
        owner \in {{<<"o", "1">>}}}
    \cup {Body(PushDoc({RefBranch}, HeadWith({<<"c", "1">>}), repo, owner)) :
            repo \in {{}, {<<>>}, {<<"r", "1">>}}, owner \in {{}, {<<"o", "1">>}}}

PrBodies ==
    {Body(PrDoc(Opened, m)) : m \in 0..Len(PrPaths)} \cup {Body(PrDoc(Closed, 0))}

Bodies == PushBodies \cup PrBodies \cup {Garbage}

\* the push of the README: refs/heads/main, with its commit, repository and owner
PlainPush == Body(PushDoc({RefBranch}, HeadWith({<<"c", "1">>}), {<<"r", "1">>}, {<<"o", "1">>}))

Secrets == {"", "whiskey"}

\* X-Hub-Signature values a client may send with body: none, the right one,
\* one made with another key, one made for other bytes, one with another scheme
Sigs(body) ==
    {<<>>,
     ExpectedSig("whiskey", body),
     ExpectedSig("wrong", body),
     ExpectedSig("whiskey", [body EXCEPT !.pad = 1]),
     <<"sha256=", HexEncode(HmacSha1("whiskey", body))>>}

IssueComment == <<"i", "s", "s", "u", "e", "_", "c", "o", "m", "m", "e", "n", "t">>

Request(method, path, eventType, sig, body) ==
    [method |-> method, path |-> path, eventType |-> eventType, sig |-> sig, body |-> body]

\* every combination of method, path, event type and signature, on two bodies
HeaderRequests ==
    UNION {{Request(m, p, t, sig, b) :
                m \in {"POST", "GET"},
                p \in {"/postreceive", "/other"},
                t \in {<<>>, Push, PullRequest, IssueComment},
                sig \in Sigs(b)} : b \in {PlainPush, Garbage}}

\* every body, as a push and as a pull_request, signed and unsigned
BodyRequests ==
    UNION {{Request("POST", "/postreceive", t, sig, b) :
                t \in {Push, PullRequest},
                sig \in {<<>>, ExpectedSig("whiskey", b)}} : b \in Bodies}

Requests == HeaderRequests \cup BodyRequests

\* NewServer() with the fields main sets from its flags
Servers ==
    [Port : {80}, Path : {"/postreceive"}, Secret : Secrets, IgnoreTags : BOOLEAN]

\* signed for the server's secret, or unsigned when it has none
Signed(s, t, body) ==
    Request("POST", s.Path, t, IF s.Secret = "" THEN <<>> ELSE ExpectedSig(s.Secret, body), body)

\* two accepted push deliveries that differ in every field of their Events,
\* and one that is ignored
ConcRequests(s) ==
    {Signed(s, Push, PlainPush),
     Signed(s, Push, Body(PushDoc({RefsHeads \o <<"d", "e", "v">>}, HeadWith({<<"c", "2">>}),
                                  {<<"r", "2">>}, {<<"o", "2">>}))),
     Signed(s, Push, Body(PushDoc({RefPull}, HeadWith({<<"c", "1">>}),
                                  {<<"r", "1">>}, {<<"o", "1">>})))}

----------------------------------------------------------------------------
(* The state machine.                                                      *)

NoRequest == Request("", "", <<>>, <<>>, Garbage)

NoResponse == [any |-> FALSE, req |-> NoRequest, out |-> Ignored]

NoDecode == [done |-> FALSE, err |-> FALSE, event |-> EmptyEvent]

CodecIdle ==
    /\ cEvent = [set |-> FALSE, event |-> EmptyEvent]
    /\ cText = <<>>
    /\ cOut = NoDecode

\* the server as main starts it, before any request
Started(s, reqs, n) ==
    /\ server = s
    /\ Events = <<>>
    /\ handlers = EmptyBag
    /\ pending = EmptyBag
    /\ started = EmptyBag
    /\ received = <<>>
    /\ resp = NoResponse
    /\ inputs = reqs
    /\ limit = n
    /\ nreq = 0

\* one kind of request per run, drawn from all of Requests
Init ==
    /\ \E s \in Servers : \E r \in Requests : Started(s, {r}, MaxReq)
    /\ CodecIdle

\* a client sends a request: net/http starts ServeHTTP in a goroutine of its own
Arrive(req) ==
    /\ nreq < limit
    /\ req \in inputs
    /\ nreq' = nreq + 1
    /\ handlers' = handlers (+) SetToBag({[req |-> req, pc |-> "run", event |-> EmptyEvent]})
    /\ UNCHANGED <<server, Events, pending, started, received, resp, inputs, limit>>

\* Spawn that starts two goroutines for the one Event
SpawnTwice(e) ==
    /\ pending' = pending (+) SetToBag({e}) (+) SetToBag({e})
    /\ started' = started (+) SetToBag({e}) (+) SetToBag({e})
    /\ UNCHANGED Events

\* Spawn with event a variable the handlers share: every goroutine that has
\* not sent yet sends the Event built last
SpawnShared(e) ==
    /\ pending' = SetToBag({[ev |-> e.ev, src |-> x.src] : x \in BagToSet(pending)})
                    (+) SetToBag({e})
    /\ started' = started (+) SetToBag({e})
    /\ UNCHANGED Events

\* Spawn without the go: the handler itself sends, and waits while the
\* channel is full
SpawnInline(e) ==
    /\ Len(Events) < Cap
    /\ Events' = Append(Events, e)
    /\ started' = started (+) SetToBag({e})
    /\ UNCHANGED pending

\* lines 272-274, the go statement: the enqueue of e is detached
Spawn(e) ==
    /\ pending' = pending (+) SetToBag({e})
    /\ started' = started (+) SetToBag({e})
    /\ UNCHANGED Events

\* ServeHTTP from its first line to the go statement, or to its return when
\* a check stops the request
Run(h) ==
    /\ BagIn(h, handlers)
    /\ h.pc = "run"
    /\ LET out == ServeHTTP(server, h.req)
       IN  IF out.spawn
           THEN /\ Spawn([ev |-> out.event, src |-> h.req])
                /\ handlers' = (handlers (-) SetToBag({h}))
                                 (+) SetToBag({[h EXCEPT !.pc = "write", !.event = out.event]})
                /\ UNCHANGED resp
           ELSE /\ resp' = [any |-> TRUE, req |-> h.req, out |-> out]
                /\ handlers' = handlers (-) SetToBag({h})
                /\ UNCHANGED <<Events, pending, started>>
    /\ UNCHANGED <<server, received, inputs, limit, nreq>>

\* WriteResponse of a handler that clears the secret once it has used it
WriteResponseClearSecret(h) ==
    /\ BagIn(h, handlers)
    /\ h.pc = "write"
    /\ resp' = [any |-> TRUE, req |-> h.req, out |-> Accepted(h.event)]
    /\ handlers' = handlers (-) SetToBag({h})
    /\ server' = [server EXCEPT !.Secret = ""]
    /\ UNCHANGED <<Events, pending, started, received, inputs, limit, nreq>>

\* line 276: w.Write([]byte(event.String())), and ServeHTTP returns
WriteResponse(h) ==
    /\ BagIn(h, handlers)
    /\ h.pc = "write"
    /\ resp' = [any |-> TRUE, req |-> h.req, out |-> Accepted(h.event)]
    /\ handlers' = handlers (-) SetToBag({h})
    /\ UNCHANGED <<server, Events, pending, started, received, inputs, limit, nreq>>

\* Enqueue as a send that gives up when the channel is full (select with a
\* default case): the Event is dropped
EnqueueOrDrop(e) ==
    /\ BagIn(e, pending)
    /\ Events' = IF Len(Events) < Cap THEN Append(Events, e) ELSE Events
    /\ pending' = pending (-) SetToBag({e})
    /\ UNCHANGED <<server, handlers, started, received, resp, inputs, limit, nreq>>

\* Enqueue on a channel that hands out the Event sent last first
EnqueueFront(e) ==
    /\ BagIn(e, pending)
    /\ Len(Events) < Cap
    /\ Events' = <<e>> \o Events
    /\ pending' = pending (-) SetToBag({e})
    /\ UNCHANGED <<server, handlers, started, received, resp, inputs, limit, nreq>>

\* line 273, s.Events <- event in the detached goroutine: waits while the
\* channel is full
Enqueue(e) ==
    /\ BagIn(e, pending)
    /\ Len(Events) < Cap
    /\ Events' = Append(Events, e)
    /\ pending' = pending (-) SetToBag({e})
    /\ UNCHANGED <<server, handlers, started, received, resp, inputs, limit, nreq>>

\* a receive that takes the newest Event of the channel, not the oldest
ConsumeNewest ==
    /\ Events # <<>>
    /\ received' = Append(received, Events[Len(Events)])
    /\ Events' = SubSeq(Events, 1, Len(Events) - 1)
    /\ UNCHANGED <<server, handlers, pending, started, resp, inputs, limit, nreq>>

\* the consumer's receive, for commit := range server.Events
Consume ==
    /\ Events # <<>>
    /\ received' = Append(received, Head(Events))
    /\ Events' = Tail(Events)
    /\ UNCHANGED <<server, handlers, pending, started, resp, inputs, limit, nreq>>

Handle == \E h \in BagToSet(handlers) : Run(h)

Respond == \E h \in BagToSet(handlers) : WriteResponse(h)

Send == \E e \in BagToSet(pending) : Enqueue(e)

Receive == \E req \in inputs : Arrive(req)

Next ==
    \/ (Receive /\ UNCHANGED codecVars)
    \/ (Handle /\ UNCHANGED codecVars)
    \/ (Respond /\ UNCHANGED codecVars)
    \/ (Send /\ UNCHANGED codecVars)
    \/ (Consume /\ UNCHANGED codecVars)

Spec == Init /\ [][Next]_vars

\* the goroutines of ServeHTTP, of the detached enqueues and of the consumer
\* are scheduled again and again; the clients need not send anything
Fairness ==
    /\ WF_vars(Handle /\ UNCHANGED codecVars)
    /\ WF_vars(Respond /\ UNCHANGED codecVars)
    /\ WF_vars(Send /\ UNCHANGED codecVars)
    /\ WF_vars(Consume /\ UNCHANGED codecVars)

\* accepted (and one ignored) push deliveries handled concurrently, with a
\* consumer reading Server.Events
ConcInit ==
    /\ \E s \in Servers : Started(s, ConcRequests(s), MaxConc)
    /\ CodecIdle

ConcSpec == ConcInit /\ [][Next]_vars /\ Fairness

\* a burst of accepted deliveries while nothing reads Server.Events
BurstInit ==
    /\ \E s \in Servers : Started(s, {Signed(s, Push, PlainPush)}, MaxBurst)
    /\ CodecIdle

BurstNext ==
    \/ (Receive /\ UNCHANGED codecVars)
    \/ (Handle /\ UNCHANGED codecVars)
    \/ (Respond /\ UNCHANGED codecVars)
    \/ (Send /\ UNCHANGED codecVars)

BurstSpec ==
    /\ BurstInit
    /\ [][BurstNext]_vars
    /\ WF_vars(Handle /\ UNCHANGED codecVars)
    /\ WF_vars(Respond /\ UNCHANGED codecVars)
    /\ WF_vars(Send /\ UNCHANGED codecVars)

\* NewServer(): port 80, path /postreceive, tags ignored, no secret, and a
\* channel of capacity Cap
NewServer ==
    [Port |-> 80, Path |-> "/postreceive", Secret |-> "", IgnoreTags |-> TRUE]

\* the same burst on a server as NewServer returns it, with the consumer of
\* main reading Server.Events
QueueInit ==
    /\ Started(NewServer, {Signed(NewServer, Push, PlainPush)}, MaxBurst)
    /\ CodecIdle

QueueSpec == QueueInit /\ [][Next]_vars /\ Fairness

----------------------------------------------------------------------------
(* The codec on its own: Event.String and NewEvent applied to Events and   *)
(* texts drawn from bounded sets.                                          *)

Names == {<<"o">>, <<"a", "b">>, <<"m", "a", "i", "n">>}

\* type push with the pull-request fields empty
PushEvents ==
    {[EmptyEvent EXCEPT !.Type = Push, !.Owner = o, !.Repo = r, !.Branch = b, !.Commit = c] :
        o \in Names, r \in Names, b \in Names, c \in {<<"a", "b", "c", "1", "2", "3">>}}

\* type pull_request with action and base fields set
PullRequestEvents ==
    {[Type |-> PullRequest, Owner |-> o, Repo |-> <<"r">>, Branch |-> b, Commit |-> <<"c">>,
      Action |-> a, BaseOwner |-> <<"b", "o">>, BaseRepo |-> <<"b", "r">>, BaseBranch |-> bb] :
        o \in Names, b \in Names, a \in {Opened, Closed}, bb \in Names}

ValidEvents == PushEvents \cup PullRequestEvents

RECURSIVE Join(_)
Join(lines) == IF lines = <<>> THEN <<>> ELSE Head(lines) \o NL \o Join(Tail(lines))

\* a text of n lines, each a label and a value, but for line short (if any),
\* which is shorter than a label
TextOf(n, short) ==
    Join([i \in 1..n |-> IF i = short THEN <<"r", "e", "p", "o", ":">> ELSE LabelOwner \o <<"x">>])

\* one past the 9 lines of the longest text Event.String produces
MaxLines == 10

Texts == {TextOf(n, short) : n \in 0..MaxLines, short \in 0..MaxLines}

CodecInit ==
    /\ \E s \in Servers : Started(s, {}, 0)
    /\ CodecIdle

\* output := e.String()
Encode(e) ==
    /\ cEvent' = [set |-> TRUE, event |-> e]
    /\ cText' = String(e)
    /\ cOut' = NoDecode
    /\ UNCHANGED srvVars

\* a text from elsewhere is handed to NewEvent
Supply(t) ==
    /\ cEvent' = [set |-> FALSE, event |-> EmptyEvent]
    /\ cText' = t
    /\ cOut' = NoDecode
    /\ UNCHANGED srvVars

\* event, err := NewEvent(text)
Decode ==
    /\ ~cOut.done
    /\ LET r == NewEvent(cText) IN cOut' = [done |-> TRUE, err |-> r.err, event |-> r.event]
    /\ UNCHANGED <<cEvent, cText>>
    /\ UNCHANGED srvVars

EncodeAny == \E e \in ValidEvents : Encode(e)

SupplyAny == \E t \in Texts : Supply(t)

CodecNext == EncodeAny \/ SupplyAny \/ Decode

CodecSpec == CodecInit /\ [][CodecNext]_vars

----------------------------------------------------------------------------
(* The claims.                                                             *)

\* the lines NewEvent sees in the text it was given
LinesOf(t) == Split(Trim(t))

\* C1: round trip. For every valid Event e (type push with empty pull-request
\* fields, or type pull_request with action and base fields set, no value
\* holding a newline), NewEvent(e.String()) returns no error and an Event
\* equal to e field by field.
C1_RoundTrip ==
    (cOut.done /\ cEvent.set) => (~cOut.err /\ cOut.event = cEvent.event)

\* C2: NewEvent returns ErrInvalidEventFormat exactly when the number of lines
\* is neither 5 nor 8 or some line is shorter than the 8-character label; a
\* well-formed text of 5 lines is never rejected.
C2_RejectsExactlyMalformed ==
    cOut.done =>
        (cOut.err <=> \/ (Len(LinesOf(cText)) # 5 /\ Len(LinesOf(cText)) # 8)
                      \/ \E i \in 1..Len(LinesOf(cText)) : Len(LinesOf(cText)[i]) < 8)

\* what is on its way to the consumer, or has reached it
Entries ==
    BagToSet(pending) \cup BagToSet(started)
    \cup {Events[i] : i \in 1..Len(Events)} \cup {received[i] : i \in 1..Len(received)}

\* the requests whose detached enqueue is started or about to be
Enqueuers ==
    {e.src : e \in Entries} \cup {h.req : h \in {x \in BagToSet(handlers) : x.pc = "write"}}

\* the request is a POST to the configured path with a known event type
Routed(req) ==
    /\ req.method = "POST"
    /\ req.path = server.Path
    /\ req.eventType \in {Push, PullRequest}

\* the request carries the signature of its body under the server's secret
GoodSig(req) == req.sig = <<"sha1=", HexEncode(HmacSha1(server.Secret, req.body))>>

\* the response is that of an ignored delivery: 200, nothing written, nothing queued
IgnoredResponse(out) ==
    out.status = 200 /\ out.errText = "" /\ out.text = <<>> /\ ~out.spawn

\* C3: the authentication decision. With a secret set, a request that reaches
\* the check passes it iff X-Hub-Signature equals "sha1=" + hex(HMAC-SHA1(Secret,
\* raw body)): no header, or any other value, is refused with 403. With no
\* secret every request passes, whatever the header holds.
C3_AuthDecision ==
    /\ (resp.any /\ Routed(resp.req)) =>
          (resp.out.status = 403 <=> (server.Secret # "" /\ ~GoodSig(resp.req)))
    /\ \A h \in BagToSet(handlers) :
          h.pc = "write" => (server.Secret = "" \/ GoodSig(h.req))

C3_Witness ==
    /\ server.Secret # ""
    /\ resp.any /\ Routed(resp.req)
    /\ resp.req.sig # <<>> /\ ~GoodSig(resp.req)
    /\ resp.out.status = 403

\* C4: no authentication bypass. With a secret set, no Event is on, or waiting
\* to be put on, Server.Events for a request whose signature is missing or
\* wrong; such a request, once it reaches the check, ends with 403 and starts
\* no detached enqueue.
C4_NoBypass ==
    server.Secret # "" =>
        /\ \A req \in Enqueuers : GoodSig(req)
        /\ (resp.any /\ Routed(resp.req) /\ ~GoodSig(resp.req)) =>
              (resp.out.status = 403 /\ ~resp.out.spawn /\ resp.out.text = <<>>)

C4_Witness ==
    /\ server.Secret # ""
    /\ resp.any /\ Routed(resp.req) /\ resp.req.sig = <<>>
    /\ resp.req.body = PlainPush /\ resp.req.eventType = Push
    /\ resp.out.status = 403
    /\ nreq = limit /\ handlers = EmptyBag /\ Entries = {}

\* C5: the status of a request stopped before the body is read, at the first
\* check that applies: not a POST: 405, whatever the path and event type; a
\* POST to another path: 404, whatever the event type; a POST to the path with
\* no X-GitHub-Event or one that is neither push nor pull_request: 400. None
\* of these enqueues anything.
C5_StatusMapping ==
    /\ resp.any =>
          /\ resp.req.method # "POST" => resp.out.status = 405
          /\ (resp.req.method = "POST" /\ resp.req.path # server.Path) =>
                resp.out.status = 404
          /\ (resp.req.method = "POST" /\ resp.req.path = server.Path
                /\ resp.req.eventType \notin {Push, PullRequest}) =>
                resp.out.status = 400
          /\ ~Routed(resp.req) => (~resp.out.spawn /\ resp.out.text = <<>>)
    /\ \A req \in Enqueuers : Routed(req)

C5_Witness ==
    /\ resp.any
    /\ resp.req.method # "POST" /\ resp.req.path # server.Path /\ resp.req.eventType = <<>>
    /\ resp.out.status = 405
    /\ Entries = {}

\* the request gets as far as the push branch's ref filter: routed, past the
\* MAC check, a JSON body with a string ref
AtRefFilter(req) ==
    /\ Routed(req) /\ req.eventType = Push
    /\ (server.Secret = "" \/ GoodSig(req))
    /\ req.body.valid
    /\ \E l \in req.body.doc : l[1] = <<"ref">> /\ l[2] = "string"

RefOf(req) == (CHOOSE l \in req.body.doc : l[1] = <<"ref">> /\ l[2] = "string")[3]

HeadCommitNull(req) == \E l \in req.body.doc : l[1] = <<"head_commit">> /\ l[2] = "null"

HasPrefix(s, prefix) == Len(s) >= Len(prefix) /\ SubSeq(s, 1, Len(prefix)) = prefix

\* what is left of s after its first n characters
After(s, n) == SubSeq(s, n + 1, Len(s))

\* the ref is one the filter is to let through
WantedRef(ref) ==
    HasPrefix(ref, RefsHeads) \/ (HasPrefix(ref, RefsTags) /\ ~server.IgnoreTags)

\* C6: push ref filtering. A push with a head_commit that is not null is
\* accepted iff its ref is a branch ref, or a tag ref while IgnoreTags is
\* false; any other ref is ignored: 200, empty body, nothing queued.
C6_RefFilter ==
    /\ (resp.any /\ AtRefFilter(resp.req) /\ ~HeadCommitNull(resp.req)) =>
          /\ WantedRef(RefOf(resp.req)) => ~IgnoredResponse(resp.out)
          /\ ~WantedRef(RefOf(resp.req)) => IgnoredResponse(resp.out)
    /\ \A req \in Enqueuers : AtRefFilter(req) => WantedRef(RefOf(req))

\* C7: the branch of an accepted push is its ref without the prefix that
\* matched: refs/heads/<name> gives <name>, and refs/tags/<name> (IgnoreTags
\* false) gives <name> in full.
C7_BranchIsRefName ==
    \A e \in Entries :
        AtRefFilter(e.src) =>
            /\ HasPrefix(RefOf(e.src), RefsHeads) =>
                  e.ev.Branch = After(RefOf(e.src), Len(RefsHeads))
            /\ HasPrefix(RefOf(e.src), RefsTags) =>
                  e.ev.Branch = After(RefOf(e.src), Len(RefsTags))

\* C8: a push whose head_commit is null is ignored whatever its ref: 200,
\* empty body, nothing queued.
C8_NullHeadCommitIgnored ==
    /\ (resp.any /\ AtRefFilter(resp.req) /\ HeadCommitNull(resp.req)) =>
          IgnoredResponse(resp.out)
    /\ \A req \in Enqueuers : AtRefFilter(req) => ~HeadCommitNull(req)

\* a sequence as a bag
RECURSIVE SeqToBag(_)
SeqToBag(q) == IF q = <<>> THEN EmptyBag ELSE SetToBag({Head(q)}) (+) SeqToBag(Tail(q))

\* the string at path p of the request's payload
Field(req, p) == (CHOOSE l \in req.body.doc : l[1] = p /\ l[2] = "string")[3]

\* the Event is made of the fields of the push it is queued for
OwnFields(e) ==
    /\ e.ev.Type = Push
    /\ e.ev.Owner = Field(e.src, <<"repository", "owner", "name">>)
    /\ e.ev.Repo = Field(e.src, <<"repository", "name">>)
    /\ e.ev.Branch = After(Field(e.src, <<"ref">>), Len(RefsHeads))
    /\ e.ev.Commit = Field(e.src, <<"head_commit", "id">>)

\* every enqueue started is waiting, on the channel or received: once each
Conserved == started = pending (+) SeqToBag(Events) (+) SeqToBag(received)

\* C9: exactly-once delivery under concurrency. With accepted push deliveries
\* handled concurrently and a consumer reading Server.Events, every Event whose
\* enqueue was started is eventually received, each exactly once, and each
\* carries the owner, repo, branch and commit of the one request it was built
\* for. (received only grows, so whenever all that was started has been
\* received, every Event started before has been.)
C9_ExactlyOnce ==
    /\ [](Conserved /\ \A e \in Entries : OwnFields(e))
    /\ []<>(started = SeqToBag(received))

C9_Witness ==
    /\ nreq = limit /\ handlers = EmptyBag /\ pending = EmptyBag /\ Events = <<>>
    /\ Len(received) >= 2
    /\ received[1].src # received[2].src
    /\ received[1].ev.Owner # received[2].ev.Owner
    /\ started = SeqToBag(received)

\* C10: the response is never held up by the queue. ServeHTTP of an accepted
\* delivery returns with its 200 written even when Server.Events holds 10
\* Events and nothing reads it; only the detached enqueue waits.
C10_ResponseNotBlocked ==
    /\ [](handlers # EmptyBag => <>(handlers = EmptyBag))
    /\ []((Len(Events) = Cap /\ handlers # EmptyBag) =>
            <>(handlers = EmptyBag /\ resp.any /\ resp.out.status = 200
                 /\ resp.out.text = String(resp.out.event)))

C10_Witness ==
    /\ Len(Events) = Cap
    /\ nreq > Cap
    /\ handlers = EmptyBag
    /\ BagCardinality(pending) = nreq - Cap
    /\ resp.any /\ resp.out.status = 200 /\ resp.out.spawn

\* C11: bounded queue without loss. Server.Events never holds more than 10
\* Events; a detached enqueue that finds it full waits, its Event neither
\* dropped nor refused; starting an enqueue never waits, however many are
\* waiting already; and with a consumer reading, every waiting enqueue
\* completes.
C11_BoundedNoLoss ==
    /\ [](Len(Events) <= Cap)
    /\ [](Conserved)
    /\ []((\E h \in BagToSet(handlers) : h.pc = "run") => ENABLED Handle)
    /\ []<>(pending = EmptyBag)

C11_Witness ==
    /\ Len(Events) = Cap
    /\ Len(received) = 0
    /\ BagCardinality(pending) = limit - Cap
    /\ BagCardinality(started) = limit
    /\ limit > Cap

\* the Events whose enqueue has completed, in the order of completion: those
\* already received, then those still in the channel
Sent == received \o Events

IsPrefix(p, q) == Len(p) <= Len(q) /\ SubSeq(q, 1, Len(p)) = p

\* C12: consumers dequeue from Server.Events in strict FIFO order and without
\* redelivery. The order in which enqueues completed is never rearranged, it
\* only grows at its end, by the Event of an enqueue that was waiting; a
\* receive takes one Event, the oldest in the channel, and leaves that order
\* as it was, so that what has been received is at all times the beginning
\* of it and no Event is received a second time.
C12_Fifo ==
    [][/\ IsPrefix(Sent, Sent')
       /\ Len(Sent') <= Len(Sent) + 1
       /\ Len(Sent') = Len(Sent) + 1 =>
             /\ received' = received
             /\ BagIn(Sent'[Len(Sent')], pending)
             /\ pending' = pending (-) SetToBag({Sent'[Len(Sent')]})
       /\ received' # received =>
             /\ Sent' = Sent
             /\ Events # <<>>
             /\ received' = Append(received, Head(Events))
             /\ Events' = Tail(Events)]_vars

C12_Witness ==
    /\ Len(received) = 2
    /\ received[1] # received[2]
    /\ Events = <<received[1]>>

\* the Events handed to Server.Events, each with the request it was built
\* for: those of the enqueues started and those of the handlers that have
\* executed the go statement
Handed ==
    {[ev |-> e.ev, src |-> e.src] : e \in Entries}
    \cup {[ev |-> h.event, src |-> h.req] : h \in {x \in BagToSet(handlers) : x.pc = "write"}}

PushShape(e) ==
    /\ e.src.eventType = Push
    /\ e.ev.Action = <<>>
    /\ e.ev.BaseOwner = <<>>
    /\ e.ev.BaseRepo = <<>>
    /\ e.ev.BaseBranch = <<>>

PullRequestShape(e) ==
    /\ e.src.eventType = PullRequest
    /\ e.ev.Action = Field(e.src, <<"action">>)
    /\ e.ev.Owner = Field(e.src, <<"pull_request", "head", "repo", "owner", "login">>)
    /\ e.ev.Repo = Field(e.src, <<"pull_request", "head", "repo", "name">>)
    /\ e.ev.Branch = Field(e.src, <<"pull_request", "head", "ref">>)
    /\ e.ev.Commit = Field(e.src, <<"pull_request", "head", "sha">>)
    /\ e.ev.BaseOwner = Field(e.src, <<"pull_request", "base", "repo", "owner", "login">>)
    /\ e.ev.BaseRepo = Field(e.src, <<"pull_request", "base", "repo", "name">>)
    /\ e.ev.BaseBranch = Field(e.src, <<"pull_request", "base", "ref">>)

\* C13: Event shape. Every Event handed to Server.Events is of Type push or
\* pull_request. A push Event has Action, BaseOwner, BaseRepo and BaseBranch
\* empty; a pull_request Event has Owner, Repo, Branch and Commit from the
\* payload's head, BaseOwner, BaseRepo and BaseBranch from its base, and
\* Action from its action field.
C13_EventShape ==
    \A e \in Handed :
        /\ e.ev.Type \in {Push, PullRequest}
        /\ e.ev.Type = Push => PushShape(e)
        /\ e.ev.Type = PullRequest => PullRequestShape(e)

C13_Witness ==
    /\ Len(received) = 2
    /\ received[1].ev.Type = PullRequest
    /\ received[1].ev.Action = Closed
    /\ received[1].ev.Owner # received[1].ev.BaseOwner

\* C14: every Event handed to Server.Events has a non-empty owner, repo,
\* branch and commit, whatever the accepted payload: also a push whose ref is
\* refs/heads/ with no name after it, and a payload whose fields are empty
\* JSON strings.
C14_NonEmptyFields ==
    \A e \in Handed :
        /\ e.ev.Owner # <<>>
        /\ e.ev.Repo # <<>>
        /\ e.ev.Branch # <<>>
        /\ e.ev.Commit # <<>>

\* the payload has a string at path p
HasString(req, p) == \E l \in req.body.doc : l[1] = p /\ l[2] = "string"

\* a pull_request delivery that passes routing and authentication and whose
\* body is JSON with every path of a pull_request
WellFormedPullRequest(req) ==
    /\ Routed(req)
    /\ req.eventType = PullRequest
    /\ server.Secret = "" \/ GoodSig(req)
    /\ req.body.valid
    /\ \A i \in 1..Len(PrPaths) : HasString(req, PrPaths[i])

\* C15: the pull-request action policy is accept-all. A well-formed
\* pull_request delivery is never answered without an Event: whatever its
\* action, the response is the 200 of an accepted delivery and an enqueue has
\* been started for an Event whose Action is the payload's action.
C15_AcceptAll ==
    /\ \A h \in BagToSet(handlers) :
          (h.pc = "write" /\ WellFormedPullRequest(h.req)) =>
              h.event.Action = Field(h.req, <<"action">>)
    /\ (resp.any /\ WellFormedPullRequest(resp.req)) =>
          /\ resp.out.status = 200
          /\ resp.out.spawn
          /\ resp.out.event.Action = Field(resp.req, <<"action">>)
          /\ \E e \in Entries :
                e.src = resp.req /\ e.ev.Action = Field(resp.req, <<"action">>)

C15_Witness ==
    /\ resp.any
    /\ WellFormedPullRequest(resp.req)
    /\ Field(resp.req, <<"action">>) = Closed
    /\ Events # <<>>
    /\ Head(Events).ev.Action = Closed

-----------------------------------------------------------------------------
(* The earlier hookserve (second half of hookserve.go): an Event of four   *)
(* fields, no check of the signature, and a pull_request branch that       *)
(* ignores every action but opened and synchronize.                        *)

\* Event{} of the earlier version: Owner, Repo, Branch, Commit
EmptyEventV1 == [Owner |-> <<>>, Repo |-> <<>>, Branch |-> <<>>, Commit |-> <<>>]

\* func (e *Event) String() of the earlier version
StringV1(e) ==
    LabelOwner \o e.Owner \o NL
    \o LabelRepo \o e.Repo \o NL
    \o LabelBranch \o e.Branch \o NL
    \o LabelCommit \o e.Commit \o NL

\* an outcome that starts no enqueue, with the earlier Event type
ReplyV1(out) == [out EXCEPT !.event = EmptyEventV1]

AcceptedV1(event) ==
    [status |-> 200, errText |-> "", text |-> StringV1(event), spawn |-> TRUE,
     event |-> event]

Synchronize == <<"s", "y", "n", "c", "h", "r", "o", "n", "i", "z", "e">>

\* the push branch: rawRef[:11] with no length check, then the fields
PushEventV1(doc) ==
    IF StringFails(doc, <<"ref">>) THEN ReplyV1(JsonError)
    ELSE LET rawRef == StringAt(doc, <<"ref">>)
         IN  IF ~SliceOK(rawRef, 0, 11) THEN ReplyV1(Panic)
             ELSE IF Slice(rawRef, 0, 11) # RefsHeads \/ IsNull(doc, <<"head_commit">>)
             THEN ReplyV1(Ignored)
             ELSE IF \/ StringFails(doc, <<"repository", "name">>)
                     \/ StringFails(doc, <<"head_commit", "id">>)
                     \/ StringFails(doc, <<"repository", "owner", "name">>)
             THEN ReplyV1(JsonError)
             ELSE AcceptedV1(
                    [Owner |-> StringAt(doc, <<"repository", "owner", "name">>),
                     Repo |-> StringAt(doc, <<"repository", "name">>),
                     Branch |-> Slice(rawRef, 11, Len(rawRef)),
                     Commit |-> StringAt(doc, <<"head_commit", "id">>)])

\* the pull_request branch: the action is read, tested, and not kept
PullRequestEventV1(doc) ==
    IF StringFails(doc, <<"action">>) THEN ReplyV1(JsonError)
    ELSE IF /\ StringAt(doc, <<"action">>) # Synchronize
            /\ StringAt(doc, <<"action">>) # Opened
    THEN ReplyV1(Ignored)
    ELSE IF \/ StringFails(doc, PrHead \o <<"repo", "name">>)
            \/ StringFails(doc, PrHead \o <<"sha">>)
            \/ StringFails(doc, PrHead \o <<"ref">>)
            \/ StringFails(doc, PrHead \o <<"repo", "owner", "login">>)
    THEN ReplyV1(JsonError)
    ELSE AcceptedV1(
           [Owner |-> StringAt(doc, PrHead \o <<"repo", "owner", "login">>),
            Repo |-> StringAt(doc, PrHead \o <<"repo", "name">>),
            Branch |-> StringAt(doc, PrHead \o <<"ref">>),
            Commit |-> StringAt(doc, PrHead \o <<"sha">>)])

\* func (s *Server) ServeHTTP of the earlier version
ServeHTTPV1(s, req) ==
    LET r == Route(s, req)
    IN  IF r.done THEN ReplyV1(r.out)
        ELSE IF UnmarshalFails(req.body) THEN ReplyV1(JsonError)
        ELSE IF req.eventType = Push THEN PushEventV1(req.body.doc)
        ELSE PullRequestEventV1(req.body.doc)

\* NewServer() of the earlier version
NewServerV1 == [Port |-> 80, Path |-> "/postreceive", Secret |-> ""]

\* every body, with a synchronize pull request added, as a push and as a
\* pull_request; and one request of each kind that routing refuses
RequestsV1 ==
    {Request("POST", "/postreceive", t, <<>>, b) :
        t \in {Push, PullRequest},
        b \in Bodies \cup {Body(PrDoc(Synchronize, 0))}}
    \cup {Request("GET", "/postreceive", Push, <<>>, PlainPush),
          Request("POST", "/other", Push, <<>>, PlainPush),
          Request("POST", "/postreceive", IssueComment, <<>>, PlainPush)}

InitV1 ==
    /\ \E r \in RequestsV1 : Started(NewServerV1, {r}, MaxReq)
    /\ CodecIdle

ArriveV1(req) ==
    /\ nreq < limit
    /\ req \in inputs
    /\ nreq' = nreq + 1
    /\ handlers' = handlers (+) SetToBag({[req |-> req, pc |-> "run", event |-> EmptyEventV1]})
    /\ UNCHANGED <<server, Events, pending, started, received, resp, inputs, limit>>

\* ServeHTTP up to the go statement, or to its return when it starts no enqueue
RunV1(h) ==
    /\ BagIn(h, handlers)
    /\ h.pc = "run"
    /\ LET out == ServeHTTPV1(server, h.req)
       IN  IF out.spawn
           THEN /\ Spawn([ev |-> out.event, src |-> h.req])
                /\ handlers' = (handlers (-) SetToBag({h}))
                                  (+) SetToBag({[h EXCEPT !.pc = "write", !.event = out.event]})
                /\ UNCHANGED resp
           ELSE /\ resp' = [any |-> TRUE, req |-> h.req, out |-> out]
                /\ handlers' = handlers (-) SetToBag({h})
                /\ UNCHANGED <<Events, pending, started>>
    /\ UNCHANGED <<server, received, inputs, limit, nreq>>

\* w.Write([]byte(event.String())), and ServeHTTP returns
WriteResponseV1(h) ==
    /\ BagIn(h, handlers)
    /\ h.pc = "write"
    /\ resp' = [any |-> TRUE, req |-> h.req, out |-> AcceptedV1(h.event)]
    /\ handlers' = handlers (-) SetToBag({h})
    /\ UNCHANGED <<server, Events, pending, started, received, inputs, limit, nreq>>

ReceiveV1 == \E req \in inputs : ArriveV1(req)

HandleV1 == \E h \in BagToSet(handlers) : RunV1(h)

RespondV1 == \E h \in BagToSet(handlers) : WriteResponseV1(h)

NextV1 ==
    \/ (ReceiveV1 /\ UNCHANGED codecVars)
    \/ (HandleV1 /\ UNCHANGED codecVars)
    \/ (RespondV1 /\ UNCHANGED codecVars)
    \/ (Send /\ UNCHANGED codecVars)
    \/ (Consume /\ UNCHANGED codecVars)

SpecV1 == InitV1 /\ [][NextV1]_vars

\* a pull_request delivery that the earlier server routes, with a JSON body
\* that has an action
PullRequestV1(req) ==
    /\ Routed(req)
    /\ req.eventType = PullRequest
    /\ req.body.valid
    /\ HasString(req, <<"action">>)

\* C16: pull-request allow-list filtering. With the allow-list {opened,
\* synchronize}, a pull_request delivery whose action is outside the list is
\* ignored, with status 200 and nothing queued; one with action opened
\* produces a queued Event with action = opened.
C16_AllowList ==
    /\ (resp.any /\ PullRequestV1(resp.req)
            /\ Field(resp.req, <<"action">>) \notin {Opened, Synchronize}) =>
          /\ IgnoredResponse(resp.out)
          /\ Entries = {}
    /\ (resp.any /\ PullRequestV1(resp.req)
            /\ \A i \in 1..Len(PrPaths) : HasString(resp.req, PrPaths[i])
            /\ Field(resp.req, <<"action">>) = Opened) =>
          /\ resp.out.status = 200
          /\ resp.out.spawn
          /\ \E e \in Entries :
                /\ e.src = resp.req
                /\ "Action" \in DOMAIN e.ev
                /\ e.ev.Action = Opened

-----------------------------------------------------------------------------
(* The current ServeHTTP again.                                            *)

\* the request passes routing and authentication
Authenticated(req) == Routed(req) /\ (server.Secret = "" \/ GoodSig(req))

\* a push that is to be ignored: its ref is not a wanted one, or its
\* head_commit is null
IgnoredDelivery(req) ==
    AtRefFilter(req) /\ (~WantedRef(RefOf(req)) \/ HeadCommitNull(req))

\* a delivery whose body is not JSON, or is without a field its branch needs:
\* a push without a ref, a push that is not to be ignored without one of
\* repository.name, head_commit.id, repository.owner.name, a pull_request
\* without its action or one of the head and base paths
ParseFailure(req) ==
    /\ Authenticated(req)
    /\ \/ ~req.body.valid
       \/ /\ req.eventType = Push
          /\ \/ ~HasString(req, <<"ref">>)
             \/ /\ ~IgnoredDelivery(req)
                /\ \/ ~HasString(req, <<"repository", "name">>)
                   \/ ~HasString(req, <<"head_commit", "id">>)
                   \/ ~HasString(req, <<"repository", "owner", "name">>)
       \/ /\ req.eventType = PullRequest
          /\ \E i \in 1..Len(PrPaths) : ~HasString(req, PrPaths[i])

\* C17: filtering and parse failure are told apart, and neither queues. An
\* ignored delivery is answered 200 with an empty body; a body that is not
\* JSON, or lacks a field that is required, is answered 500 with an error
\* body; no enqueue is started for either.
C17_IgnoredOrParseFailure ==
    /\ (resp.any /\ IgnoredDelivery(resp.req)) => IgnoredResponse(resp.out)
    /\ (resp.any /\ ParseFailure(resp.req)) =>
          /\ resp.out.status = 500
          /\ resp.out.errText # ""
          /\ ~resp.out.spawn
    /\ \A req \in Enqueuers : ~IgnoredDelivery(req) /\ ~ParseFailure(req)

\* the handlers that have executed the go statement and not yet written
Writing ==
    [h \in {x \in BagToSet(handlers) : x.pc = "write"} |-> CopiesIn(h, handlers)]

\* the response of an accepted delivery for request req and Event ev
AcceptedResponse(r, req, ev) ==
    /\ r.any
    /\ r.req = req
    /\ r.out.status = 200
    /\ r.out.errText = ""
    /\ r.out.text = String(ev)

\* C18: the response of an accepted delivery is 200 with String() of the
\* very Event the request hands to Server.Events, and one enqueue is started
\* for it, no more. Step by step: enqueues are started one at a time, each by
\* a handler passing its go statement, for that handler's request and Event;
\* a handler that has passed it writes 200 and String() of that same Event;
\* and a 200 with a body is only ever written by such a handler.
C18_ResponseIsQueuedEvent ==
    [][/\ started' # started =>
             \E h \in BagToSet(Writing') :
                 /\ Writing' = Writing (+) SetToBag({h})
                 /\ started' = started (+) SetToBag({[ev |-> h.event, src |-> h.req]})
       /\ BagCardinality(Writing') > BagCardinality(Writing) => started' # started
       /\ BagCardinality(Writing') < BagCardinality(Writing) =>
             \E h \in BagToSet(Writing) :
                 /\ Writing' = Writing (-) SetToBag({h})
                 /\ AcceptedResponse(resp', h.req, h.event)
                 /\ BagIn([ev |-> h.event, src |-> h.req], started)
       /\ (resp' # resp /\ resp'.out.status = 200 /\ resp'.out.text # <<>>) =>
             BagCardinality(Writing') < BagCardinality(Writing)]_vars

C18_Witness ==
    /\ nreq = 1
    /\ handlers = EmptyBag
    /\ resp.req.body = PlainPush
    /\ AcceptedResponse(resp, resp.req, resp.out.event)
    /\ resp.out.event =
          [EmptyEvent EXCEPT !.Type = Push, !.Owner = <<"o", "1">>, !.Repo = <<"r", "1">>,
                             !.Branch = <<"m", "a", "i", "n">>, !.Commit = <<"c", "1">>]
    /\ started = SetToBag({[ev |-> resp.out.event, src |-> resp.req]})
    /\ Events = <<[ev |-> resp.out.event, src |-> resp.req]>>

\* C19: the order of the checks after the discriminator. The signature is
\* checked on the raw body, after the X-GitHub-Event check and before the body
\* is decoded: with a secret set, a routed request with a missing or wrong
\* signature is answered 403 also when its body is not JSON, never 500; and a
\* request with a missing or unknown X-GitHub-Event is answered 400 also when
\* its signature is missing or wrong, never 403.
C19_CheckOrder ==
    /\ (resp.any /\ server.Secret # "" /\ Routed(resp.req) /\ ~GoodSig(resp.req)) =>
          resp.out.status = 403
    /\ (resp.any /\ server.Secret # "" /\ resp.req.method = "POST"
            /\ resp.req.path = server.Path
            /\ resp.req.eventType \notin {Push, PullRequest}) =>
          resp.out.status = 400

C19_Witness ==
    /\ resp.any
    /\ server.Secret # ""
    /\ Routed(resp.req)
    /\ ~resp.req.body.valid
    /\ resp.req.sig # <<>>
    /\ ~GoodSig(resp.req)
    /\ resp.out.status = 403

\* C20: ServeHTTP never modifies the server configuration. No step of any
\* request, whatever its outcome and however the requests interleave, changes
\* Server.Path, Server.Secret, Server.IgnoreTags or Server.Port: of the state
\* the requests share, only the content of Server.Events changes.
C20_ConfigUnchanged == [][server' = server]_vars

C20_Witness ==
    /\ nreq = limit
    /\ handlers = EmptyBag
    /\ pending = EmptyBag
    /\ Len(received) = limit
    /\ server = [Port |-> 80, Path |-> "/postreceive", Secret |-> "whiskey",
                 IgnoreTags |-> FALSE]

\* C21: the push ref check is total. Whatever the ref of a push that gets as
\* far as the ref filter, also the empty string and refs shorter than 10 or 11
\* characters, ignoreRef returns a decision and ServeHTTP ends in a response:
\* no slice of the ref is out of range.
C21_RefCheckTotal ==
    (resp.any /\ AtRefFilter(resp.req)) =>
        /\ ~ignoreRef(server, RefOf(resp.req)).fault
        /\ resp.out.status # 0

-----------------------------------------------------------------------------
(* A client that sends its next request when it has the response to the    *)
(* one before: every ServeHTTP returns before the next begins, while the   *)
(* detached goroutines run as the scheduler lets them.                     *)

Digits == <<"1", "2", "3", "4", "5", "6", "7", "8", "9">>

\* the k-th request of the client: an accepted push with a commit of its own
SerialRequest(s, k) ==
    Signed(s, Push, Body(PushDoc({RefBranch}, HeadWith({<<"c", Digits[k]>>}),
                                 {<<"r", "1">>}, {<<"o", "1">>})))

SerialInit ==
    /\ \E s \in Servers :
          Started(s, {SerialRequest(s, k) : k \in 1..MaxSerial}, MaxSerial)
    /\ CodecIdle

\* the next request arrives once no ServeHTTP is running
ReceiveSerial ==
    /\ nreq < limit
    /\ handlers = EmptyBag
    /\ Arrive(SerialRequest(server, nreq + 1))

SerialNext ==
    \/ (ReceiveSerial /\ UNCHANGED codecVars)
    \/ (Handle /\ UNCHANGED codecVars)
    \/ (Respond /\ UNCHANGED codecVars)
    \/ (Send /\ UNCHANGED codecVars)
    \/ (Consume /\ UNCHANGED codecVars)

SerialSpec == SerialInit /\ [][SerialNext]_vars

\* the place of a request in the order the client sends them
Index(req) == CHOOSE k \in 1..MaxSerial : SerialRequest(server, k) = req

\* the Event of the k-th request has been sent to Server.Events
InSent(k) == \E p \in DOMAIN Sent : Index(Sent[p].src) = k

InReceived(k) == \E p \in DOMAIN received : Index(received[p].src) = k

\* the Event of the i-th request has been received, and before that of the j-th
ReceivedBefore(i, j) ==
    \E p, q \in DOMAIN received :
        p < q /\ Index(received[p].src) = i /\ Index(received[q].src) = j

\* C22 as stated: request order is preserved through the queue. When each
\* ServeHTTP returns before the next begins, the Events are received in the
\* order of their requests, however the detached enqueues interleave.
C22_RequestOrder ==
    \A p, q \in DOMAIN received :
        p < q => Index(received[p].src) < Index(received[q].src)

\* C22, amended: request order is preserved for an Event that is already in
\* Server.Events. If the enqueue of request A's Event has completed before
\* request B's ServeHTTP begins, A's Event is received before B's; an enqueue
\* of A that is still waiting then may be overtaken by B's.
C22_OrderOfCompletedEnqueues ==
    \A i, j \in 1..MaxSerial :
        i < j => []((InSent(i) /\ nreq < j) => [](InReceived(j) => ReceivedBefore(i, j)))

\* both cases in one run: the first Event is received first, and the third
\* has overtaken the second, whose enqueue was still waiting when the third
\* was sent
C22_Witness ==
    /\ Len(received) = 3
    /\ Index(received[1].src) = 1
    /\ Index(received[2].src) = 3
    /\ Index(received[3].src) = 2

====
